---- MODULE Spec2Model ----
(***************************************************************************)
(* Model of utils/check_if_new_model_added.py: get_new_python_files,       *)
(* get_new_files and the __main__ block that extracts the model directory. *)
(* The git repository is the environment: every call into it either raises *)
(* or returns a value drawn from a small set.  Paths and output lines are  *)
(* strings; the regular expression is computed character by character.     *)
(***************************************************************************)
EXTENDS Integers, Sequences, FiniteSets, TLC

VARIABLES
    pc,                 \* position of the script
    main,               \* get_new_python_files: the resolved mainline reference
    branching_commits,  \* get_new_python_files: result of repo.merge_base
    bi,                 \* index of the `for commit in branching_commits` print loop
    ci,                 \* get_new_files: index of `for commit in commits`
    cur_diff,           \* get_new_files: commit.diff(base_commit) of the current commit
    di,                 \* get_new_files: index of `for diff_obj in ...`
    code_diff,          \* get_new_files: the accumulated list
    new_files,          \* __main__: new_files
    xi,                 \* __main__: index of `for x in new_files`
    new_model,          \* __main__: new_model
    out,                \* standard output, one string per printed line
    calls,              \* history: calls into the repository, [op, arg, ok]
    diffs,              \* history: the diff returned for each commit processed
    examined            \* history: indexes of new_files the extraction loop read

vars == <<pc, main, branching_commits, bi, ci, cur_diff, di, code_diff,
          new_files, xi, new_model, out, calls, diffs, examined>>

----------------------------------------------------------------------------
(* Bounds of the model *)

MaxCommits == 2     \* most commits repo.merge_base returns
MaxEntries == 3     \* most diff entries the repository yields in one run

----------------------------------------------------------------------------
(* The environment's values *)

\* Commits returned by merge_base, named in the order merge_base returns them.
CommitName == <<"c1", "c2", "c3", "c4">>

HeadCommit == "h0"

\* The commit each mainline reference points at.
RefCommit(ref) == IF ref = "main" THEN "m1" ELSE "m2"

pA == "src/transformers/models/a/modeling_a.py"
pB == "src/transformers/models/b/modeling_b.py"
pCfg == "src/transformers/models/a/configuration_a.py"
pDep == "src/transformers/models/deprecated/x/modeling_x.py"
pDoc == "src/transformers/models/a/modeling_a.md"
pUtl == "utils/check.py"

\* Diff entries: change_type and b_path.
DiffEntries ==
    { [change_type |-> "A", b_path |-> pA],
      [change_type |-> "A", b_path |-> pB],
      [change_type |-> "A", b_path |-> pCfg],
      [change_type |-> "A", b_path |-> pDoc],
      [change_type |-> "M", b_path |-> pDep],
      [change_type |-> "D", b_path |-> pUtl],
      [change_type |-> "R", b_path |-> pB] }

SeqsUpTo(S, n) == UNION { [1..k -> S] : k \in 0..n }

\* One call into the repository: the operation, its argument, whether it returned.
Call(op, arg, ok) == [op |-> op, arg |-> arg, ok |-> ok]

RECURSIVE SumLen(_)
SumLen(ss) == IF ss = <<>> THEN 0 ELSE Len(Head(ss)) + SumLen(Tail(ss))

----------------------------------------------------------------------------
(* str.endswith and re.findall *)

HasAt(s, i, lit) ==
    /\ i >= 1
    /\ i + Len(lit) - 1 <= Len(s)
    /\ SubSeq(s, i, i + Len(lit) - 1) = lit

EndsWith(s, suffix) == HasAt(s, Len(s) - Len(suffix) + 1, suffix)

\* `.*` over s[a..b]: any characters except a newline.
DotStar(s, a, b) == \A t \in a..b : SubSeq(s, t, t) # "\n"

RegPrefix == "src/transformers/"
RegGroupHead == "models/"
RegMid == "/modeling_"
RegTail == ".py"

\* The final `.*\.py` of reg matches s from position a on: a literal ".py"
\* stands at some k >= a, with no newline before it.
TailMatches(s, a) ==
    \E k \in a..Len(s) : HasAt(s, k, RegTail) /\ DotStar(s, a, k - 1)

\* Positions j where the group of a match starting at i can end: the literal
\* "/modeling_" stands at j and the rest of reg matches after it.
GroupEnds(s, i) ==
    LET g == i + Len(RegPrefix) + Len(RegGroupHead) IN
    { j \in g..Len(s) : /\ HasAt(s, j, RegMid)
                        /\ DotStar(s, g, j - 1)
                        /\ TailMatches(s, j + Len(RegMid)) }

\* Positions where a match of reg starts (findall searches, it does not anchor).
MatchStarts(s) ==
    { i \in 1..Len(s) : /\ HasAt(s, i, RegPrefix \o RegGroupHead)
                        /\ GroupEnds(s, i) # {} }

\* len(reg.findall(x)) > 0
Found(s) == MatchStarts(s) # {}

Min(S) == CHOOSE a \in S : \A b \in S : a <= b
Max(S) == CHOOSE a \in S : \A b \in S : a >= b

\* reg.findall(x)[0]: the group of the leftmost match, taken greedily.
FirstGroup(s) ==
    LET i == Min(MatchStarts(s))
        j == Max(GroupEnds(s, i))
    IN  SubSeq(s, i + Len(RegPrefix), j - 1)

----------------------------------------------------------------------------
(* The script *)

\* Variant: new_model starts at the fallback value instead of the empty string.
NewModelInitBert == "models/bert"

\* new_model = ""
NewModelInit == ""

Init ==
    /\ pc = "open"
    /\ main = "none"
    /\ branching_commits = <<>>
    /\ bi = 1
    /\ ci = 1
    /\ cur_diff = <<>>
    /\ di = 1
    /\ code_diff = <<>>
    /\ new_files = <<>>
    /\ xi = 1
    /\ new_model = NewModelInit
    /\ out = <<>>
    /\ calls = <<>>
    /\ diffs = <<>>
    /\ examined = {}

\* repo = Repo(PATH_TO_REPO)
OpenRepo ==
    /\ pc = "open"
    /\ \E ok \in BOOLEAN :
        /\ calls' = Append(calls, Call("Repo", "PATH_TO_REPO", ok))
        /\ pc' = IF ok THEN "resolve_main" ELSE "error"
    /\ UNCHANGED <<main, branching_commits, bi, ci, cur_diff, di, code_diff,
                   new_files, xi, new_model, out, diffs, examined>>

\* Variant: no try/except, the remote-tracking reference is resolved after
\* the local one whether or not the local one resolved.
ResolveLocalThenOrigin ==
    /\ pc = "resolve_main"
    /\ \E ok \in BOOLEAN :
        /\ calls' = Append(calls, Call("refs", "main", ok))
        /\ main' = IF ok THEN "main" ELSE main
        /\ pc' = "except"
    /\ UNCHANGED <<branching_commits, bi, ci, cur_diff, di, code_diff,
                   new_files, xi, new_model, out, diffs, examined>>

\* try: main = repo.refs.main
ResolveLocal ==
    /\ pc = "resolve_main"
    /\ \E ok \in BOOLEAN :
        /\ calls' = Append(calls, Call("refs", "main", ok))
        /\ main' = IF ok THEN "main" ELSE main
        /\ pc' = IF ok THEN "print_main" ELSE "except"
    /\ UNCHANGED <<branching_commits, bi, ci, cur_diff, di, code_diff,
                   new_files, xi, new_model, out, diffs, examined>>

\* except: main = repo.remotes.origin.refs.main
ResolveOrigin ==
    /\ pc = "except"
    /\ \E ok \in BOOLEAN :
        /\ calls' = Append(calls, Call("refs", "origin/main", ok))
        /\ main' = IF ok THEN "origin/main" ELSE main
        /\ pc' = IF ok THEN "print_main" ELSE "error"
    /\ UNCHANGED <<branching_commits, bi, ci, cur_diff, di, code_diff,
                   new_files, xi, new_model, out, diffs, examined>>

\* print(f"main is at {main.commit}")
PrintMain ==
    /\ pc = "print_main"
    /\ out' = Append(out, "main is at " \o RefCommit(main))
    /\ pc' = "print_head"
    /\ UNCHANGED <<main, branching_commits, bi, ci, cur_diff, di, code_diff,
                   new_files, xi, new_model, calls, diffs, examined>>

\* print(f"Current head is at {repo.head.commit}")
PrintHead ==
    /\ pc = "print_head"
    /\ out' = Append(out, "Current head is at " \o HeadCommit)
    /\ pc' = "merge_base"
    /\ UNCHANGED <<main, branching_commits, bi, ci, cur_diff, di, code_diff,
                   new_files, xi, new_model, calls, diffs, examined>>

\* Variant: a failure of merge_base is swallowed and taken for "no branching
\* commit".
MergeBaseSwallows ==
    /\ pc = "merge_base"
    /\ \/ /\ calls' = Append(calls, Call("merge_base", main, FALSE))
          /\ branching_commits' = <<>>
       \/ \E n \in 0..MaxCommits :
            /\ calls' = Append(calls, Call("merge_base", main, TRUE))
            /\ branching_commits' = SubSeq(CommitName, 1, n)
    /\ pc' = "print_branching"
    /\ UNCHANGED <<main, bi, ci, cur_diff, di, code_diff,
                   new_files, xi, new_model, out, diffs, examined>>

\* branching_commits = repo.merge_base(main, repo.head)
MergeBase ==
    /\ pc = "merge_base"
    /\ \/ /\ calls' = Append(calls, Call("merge_base", main, FALSE))
          /\ pc' = "error"
          /\ UNCHANGED branching_commits
       \/ \E n \in 0..MaxCommits :
            /\ calls' = Append(calls, Call("merge_base", main, TRUE))
            /\ branching_commits' = SubSeq(CommitName, 1, n)
            /\ pc' = "print_branching"
    /\ UNCHANGED <<main, bi, ci, cur_diff, di, code_diff,
                   new_files, xi, new_model, out, diffs, examined>>

\* Variant: the branching commits are printed last to first.
PrintBranchingReversed ==
    /\ pc = "print_branching"
    /\ IF bi <= Len(branching_commits)
       THEN /\ out' = Append(out, "Branching commit: "
                                   \o branching_commits[Len(branching_commits) + 1 - bi])
            /\ bi' = bi + 1
            /\ pc' = pc
       ELSE /\ pc' = "for_commit"
            /\ UNCHANGED <<out, bi>>
    /\ UNCHANGED <<main, branching_commits, ci, cur_diff, di, code_diff,
                   new_files, xi, new_model, calls, diffs, examined>>

\* for commit in branching_commits: print(f"Branching commit: {commit}")
PrintBranching ==
    /\ pc = "print_branching"
    /\ IF bi <= Len(branching_commits)
       THEN /\ out' = Append(out, "Branching commit: " \o branching_commits[bi])
            /\ bi' = bi + 1
            /\ pc' = pc
       ELSE /\ pc' = "for_commit"
            /\ UNCHANGED <<out, bi>>
    /\ UNCHANGED <<main, branching_commits, ci, cur_diff, di, code_diff,
                   new_files, xi, new_model, calls, diffs, examined>>

\* get_new_files: `for commit in commits`, calling commit.diff(base_commit);
\* when the commits are exhausted, `return code_diff` into new_files.
ForCommit ==
    /\ pc = "for_commit"
    /\ IF ci <= Len(branching_commits)
       THEN \/ /\ calls' = Append(calls, Call("diff", branching_commits[ci], FALSE))
               /\ pc' = "error"
               /\ UNCHANGED <<cur_diff, di, diffs, new_files>>
            \/ \E d \in SeqsUpTo(DiffEntries, MaxEntries - SumLen(diffs)) :
                 /\ calls' = Append(calls, Call("diff", branching_commits[ci], TRUE))
                 /\ cur_diff' = d
                 /\ diffs' = Append(diffs, d)
                 /\ di' = 1
                 /\ pc' = "for_diff_obj"
                 /\ UNCHANGED new_files
       ELSE /\ new_files' = code_diff
            /\ pc' = "for_x"
            /\ UNCHANGED <<calls, cur_diff, di, diffs>>
    /\ UNCHANGED <<main, branching_commits, bi, ci, code_diff,
                   xi, new_model, out, examined>>

\* Variant: the change type is not tested.
IsNewPythonAnyType(diff_obj) == EndsWith(diff_obj.b_path, ".py")

\* diff_obj.change_type == "A" and diff_obj.b_path.endswith(".py")
IsNewPython(diff_obj) ==
    diff_obj.change_type = "A" /\ EndsWith(diff_obj.b_path, ".py")

\* code_diff.append(diff_obj.b_path)
AppendPath(lst, path) == Append(lst, path)

\* Variant: `return code_diff` inside the loop over the commits, so that only
\* the first commit's diff is processed.
ForDiffObjFirstCommitOnly ==
    /\ pc = "for_diff_obj"
    /\ IF di <= Len(cur_diff)
       THEN /\ code_diff' = IF IsNewPython(cur_diff[di])
                             THEN AppendPath(code_diff, cur_diff[di].b_path)
                             ELSE code_diff
            /\ di' = di + 1
            /\ UNCHANGED <<ci, pc, new_files>>
       ELSE /\ new_files' = code_diff
            /\ pc' = "for_x"
            /\ UNCHANGED <<code_diff, di, ci>>
    /\ UNCHANGED <<main, branching_commits, bi, cur_diff,
                   xi, new_model, out, calls, diffs, examined>>

\* get_new_files: one iteration of `for diff_obj in commit.diff(base_commit)`.
ForDiffObj ==
    /\ pc = "for_diff_obj"
    /\ IF di <= Len(cur_diff)
       THEN /\ code_diff' = IF IsNewPython(cur_diff[di])
                             THEN AppendPath(code_diff, cur_diff[di].b_path)
                             ELSE code_diff
            /\ di' = di + 1
            /\ UNCHANGED <<ci, pc>>
       ELSE /\ ci' = ci + 1
            /\ pc' = "for_commit"
            /\ UNCHANGED <<code_diff, di>>
    /\ UNCHANGED <<main, branching_commits, bi, cur_diff,
                   new_files, xi, new_model, out, calls, diffs, examined>>

\* Variant: no `break`, the loop runs over the whole list.
BreaksNever(found) == FALSE

\* Variant: the `break` stands inside the `if`, taken on a match only.
BreaksOnMatch(found) == found

\* The `break` of the extraction loop stands at the level of the loop body:
\* it is taken at the end of every iteration, match or no match.
Breaks(found) == TRUE

\* __main__: one iteration of `for x in new_files`.
ForX ==
    /\ pc = "for_x"
    /\ IF xi <= Len(new_files)
       THEN LET x == new_files[xi] IN
            /\ examined' = examined \cup {xi}
            /\ new_model' = IF Found(x) THEN FirstGroup(x) ELSE new_model
            /\ IF Breaks(Found(x))
               THEN pc' = "overwrite" /\ UNCHANGED xi
               ELSE xi' = xi + 1 /\ UNCHANGED pc
       ELSE /\ pc' = "overwrite"
            /\ UNCHANGED <<xi, new_model, examined>>
    /\ UNCHANGED <<main, branching_commits, bi, ci, cur_diff, di, code_diff,
                   new_files, out, calls, diffs>>

\* Variant: the assignment of the fallback value is missing.
OverwriteSkipped ==
    /\ pc = "overwrite"
    /\ pc' = "print_model"
    /\ UNCHANGED <<main, branching_commits, bi, ci, cur_diff, di, code_diff,
                   new_files, xi, new_model, out, calls, diffs, examined>>

\* new_model = "models/bert"
Overwrite ==
    /\ pc = "overwrite"
    /\ new_model' = "models/bert"
    /\ pc' = "print_model"
    /\ UNCHANGED <<main, branching_commits, bi, ci, cur_diff, di, code_diff,
                   new_files, xi, out, calls, diffs, examined>>

\* print(new_model)
PrintModel ==
    /\ pc = "print_model"
    /\ out' = Append(out, new_model)
    /\ pc' = "done"
    /\ UNCHANGED <<main, branching_commits, bi, ci, cur_diff, di, code_diff,
                   new_files, xi, new_model, calls, diffs, examined>>

Next ==
    \/ OpenRepo
    \/ ResolveLocal
    \/ ResolveOrigin
    \/ PrintMain
    \/ PrintHead
    \/ MergeBase
    \/ PrintBranching
    \/ ForCommit
    \/ ForDiffObj
    \/ ForX
    \/ Overwrite
    \/ PrintModel

Spec == Init /\ [][Next]_vars

----------------------------------------------------------------------------
(* Vocabulary of the properties *)

Range(f) == { f[i] : i \in DOMAIN f }

\* get_new_files has just returned: new_files holds its result.
Returned == pc = "for_x"

\* reg applied once to every path the repository can report.
AllPaths == { entry.b_path : entry \in DiffEntries }
Matches == [path \in AllPaths |-> Found(path)]
Group == [path \in { q \in AllPaths : Found(q) } |-> FirstGroup(path)]

\* The extraction loop is over and the overwrite has not happened yet.
BeforeOverwrite == pc = "overwrite"

\* Indexes of the paths of new_files that match reg.
Matching == { i \in 1..Len(new_files) : Matches[new_files[i]] }

----------------------------------------------------------------------------
(* The extraction loop of __main__ *)

\* C1: whenever some path of the new-file list matches the pattern, at
\* whatever position, the value captured before the overwrite is the group
\* of the first matching path in sequence order.
C1_FirstMatchAnywhere ==
    (BeforeOverwrite /\ Matching # {})
        => new_model = Group[new_files[Min(Matching)]]

\* C5: when the first path of the new-file list matches, the value captured
\* before the overwrite is its group, whatever paths follow: models/a for the
\* modeling file of a, models/b for that of b, a later match never replacing it.
C5_FirstPathWins ==
    (BeforeOverwrite /\ 1 \in Matching) =>
        /\ new_model = Group[new_files[1]]
        /\ new_files[1] = pA => new_model = "models/a"
        /\ new_files[1] = pB => new_model = "models/b"

C5_Witness ==
    /\ BeforeOverwrite
    /\ Len(new_files) >= 2
    /\ new_files[1] = pA
    /\ new_files[2] = pB
    /\ new_model = "models/a"

\* C6: when no path of the new-file list matches the pattern (the empty list
\* included), the captured value is the empty string just before the overwrite.
C6_NoMatchEmpty ==
    (BeforeOverwrite /\ Matching = {}) => new_model = ""

C6_Witness ==
    /\ BeforeOverwrite
    /\ Len(new_files) >= 2
    /\ Matching = {}
    /\ new_model = ""

----------------------------------------------------------------------------
(* get_new_files *)

\* Positions <<c, e>> of the diff entries seen: entry e of the diff of commit c.
Positions == UNION { { <<c, e>> : e \in DOMAIN diffs[c] } : c \in DOMAIN diffs }

Entry(pos) == diffs[pos[1]][pos[2]]

Retained == { pos \in Positions : /\ Entry(pos).change_type = "A"
                                  /\ EndsWith(Entry(pos).b_path, ".py") }

RECURSIVE AddedPy(_)
AddedPy(d) ==
    IF d = <<>> THEN <<>>
    ELSE LET rest == AddedPy(Tail(d)) IN
         IF Head(d).change_type = "A" /\ EndsWith(Head(d).b_path, ".py")
         THEN <<Head(d).b_path>> \o rest
         ELSE rest

RECURSIVE ConcatAll(_)
ConcatAll(ds) == IF ds = <<>> THEN <<>> ELSE AddedPy(Head(ds)) \o ConcatAll(Tail(ds))

\* C4: get_new_files takes the diff of every ancestor commit, in the order
\* of the list, and its result is the concatenation of the Added .py paths
\* of each diff, in diff order, with no deduplication.
C4_AllCommitsConcatenated ==
    Returned =>
        /\ Len(diffs) = Len(branching_commits)
        /\ \A c \in 1..Len(branching_commits) :
              Call("diff", branching_commits[c], TRUE) \in Range(calls)
        /\ new_files = ConcatAll(diffs)

C4_Witness ==
    /\ Returned
    /\ Len(branching_commits) = 2
    /\ AddedPy(diffs[1]) = <<pA, pB>>
    /\ AddedPy(diffs[2]) = <<pA>>
    /\ new_files = <<pA, pB, pA>>

----------------------------------------------------------------------------
(* get_new_python_files *)

CallsOf(op, arg) == { i \in 1..Len(calls) : calls[i].op = op /\ calls[i].arg = arg }

\* C7: when the local reference main resolves it is the reference handed to
\* merge_base and origin/main is never consulted; origin/main is consulted
\* only right after the local resolution failed, at most once, and when it
\* fails too the run is in error with no further call.
C7_LocalMainPreferred ==
    LET made == Range(calls)
        remote == CallsOf("refs", "origin/main")
    IN  /\ Call("refs", "main", TRUE) \in made =>
              /\ main = "main"
              /\ remote = {}
              /\ CallsOf("merge_base", "origin/main") = {}
        /\ \A i \in remote : i > 1 /\ calls[i - 1] = Call("refs", "main", FALSE)
        /\ Cardinality(remote) <= 1
        /\ Call("refs", "origin/main", TRUE) \in made =>
              /\ main = "origin/main"
              /\ CallsOf("merge_base", "main") = {}
        /\ Call("refs", "origin/main", FALSE) \in made =>
              /\ pc = "error"
              /\ calls[Len(calls)] = Call("refs", "origin/main", FALSE)

C7_Witness ==
    /\ Call("refs", "main", TRUE) \in Range(calls)
    /\ Call("merge_base", "main", TRUE) \in Range(calls)
    /\ CallsOf("refs", "origin/main") = {}

\* Calls whose failure nothing catches: every failure but that of refs.main.
Fatal == { i \in 1..Len(calls) : ~calls[i].ok /\ calls[i] # Call("refs", "main", FALSE) }

Diagnostics ==
    <<"main is at " \o RefCommit(main), "Current head is at " \o HeadCommit>>
    \o [i \in 1..Len(branching_commits) |-> "Branching commit: " \o branching_commits[i]]

IsPrefix(a, b) == Len(a) <= Len(b) /\ a = SubSeq(b, 1, Len(a))

\* C8: a failure of Repo, of both mainline resolutions, of merge_base or of
\* a diff puts the run in the error state with the failing call as the last
\* call; no call is made twice, nothing computed after the failing call
\* exists, the model-path line is not printed, and a failure before the
\* mainline is resolved leaves the output empty.
C8_FailureIsFatal ==
    /\ Fatal # {} <=> pc = "error"
    /\ Cardinality({ <<calls[i].op, calls[i].arg>> : i \in 1..Len(calls) }) = Len(calls)
    /\ pc = "error" =>
          /\ Fatal = {Len(calls)}
          /\ new_files = <<>>
          /\ new_model = ""
          /\ examined = {}
          /\ "models/bert" \notin Range(out)
          /\ calls[Len(calls)].op \in {"Repo", "refs"} => out = <<>>
          /\ calls[Len(calls)].op = "merge_base" =>
                out = SubSeq(Diagnostics, 1, 2) /\ branching_commits = <<>>
          /\ calls[Len(calls)].op = "diff" =>
                /\ out = Diagnostics
                /\ Len(diffs) = ci - 1
                /\ calls[Len(calls)].arg = branching_commits[ci]

C8_Witness ==
    /\ pc = "error"
    /\ Len(diffs) = 1
    /\ calls[Len(calls)] = Call("diff", "c2", FALSE)
    /\ code_diff # <<>>
    /\ Len(out) = 4

\* C9: the output is at every moment a prefix of: the mainline line, the
\* head line, one line per branching commit in merge_base order, the model
\* path; the whole of it when the run is done; and no diff is computed
\* before every branching-commit line is out.
C9_OutputOrder ==
    /\ IsPrefix(out, Diagnostics \o <<new_model>>)
    /\ pc # "done" => Len(out) <= Len(Diagnostics)
    /\ pc = "done" => out = Diagnostics \o <<new_model>>
    /\ calls # <<>> /\ calls[Len(calls)].op = "diff" => IsPrefix(Diagnostics, out)

C9_Witness ==
    /\ pc = "done"
    /\ Len(branching_commits) = 2
    /\ out = <<"main is at m2", "Current head is at h0", "Branching commit: c1",
               "Branching commit: c2", "models/bert">>

====
